---- MODULE Spec2Model ----
(***************************************************************************)
(* Telemetry delivery and error monitoring of the AutoTracker SDK.         *)
(*                                                                         *)
(*   "class"   : BeaconSender          (src/src/sender/beaconSender.js)    *)
(*   "factory" : createBeaconSender    (src/packages/core/src/             *)
(*                                      beaconSender.js)                   *)
(*                                                                         *)
(* A behaviour of Spec follows one sender instance; Init chooses which of   *)
(* the two implementations the host constructed and under which            *)
(* configuration.                                                          *)
(*                                                                         *)
(*   "class" monitor : ErrorMonitor     (src/src/core/errorMonitor.js)     *)
(*   "core"  monitor : initErrorMonitor (src/packages/core/src/            *)
(*                                       errorMonitor.js)                  *)
(*                                                                         *)
(* A behaviour of MonitorSpec follows one error monitor, and a behaviour   *)
(* of SampleSpec one call of shouldSample.  The component a specification  *)
(* does not follow stays as constructed.                                   *)
(***************************************************************************)
EXTENDS Integers, Sequences, FiniteSets, TLC

(***************************************************************************)
(* Bounds of the model and configuration values.                           *)
(***************************************************************************)
MaxRecords == 2          \* number of records the host hands to the sender
MaxDrains == 1           \* offline-queue drains pending at one time
batchSize == 1           \* config.beacon.batchSize of src/config.js
coreBatchSize == 2       \* config.beacon.batchSize of packages/core
maxRetries == 2          \* config.beacon.retryCount
maxOfflineQueueSize == 1 \* this.maxOfflineQueueSize
beaconDelay == 5000      \* config.beacon.delay
MaxBackoff == 60000      \* cap of the retry delay
CacheMaxSize == 1000     \* new Cache(1000) (factory)
coreRetryCount == 2      \* config.beacon.retryCount of packages/core
MaxFingerprints == 2     \* distinct error fingerprints the page produces
MaxCount == 20           \* occurrences counted by the dedup entries together
MaxReports == 3          \* error records handed to the report callback
maxErrorsPerPage == 1    \* config.error.maxErrorsPerPage of packages/core
SampleOne == 1000        \* the sampling rate 1.0, in thousandths
MaxDelay == 2            \* largest delay given to throttle() / debounce()
MaxStart == 3            \* largest Date.now() when throttle() is called
MaxNow == 6              \* the clock stops here
MaxCalls == 3            \* calls of a throttled / debounced function
MaxKeys == 3             \* distinct keys given to a Cache
MaxCacheSize == 3        \* largest maxSize a Cache is constructed with
MaxUsers == 2            \* distinct user ids given to setUserId()
MaxProps == 2            \* distinct property names given to setUserProperties()
MaxSdkCalls == 4         \* calls of the packages/core API

VARIABLES
  impl,                \* which sender the host constructed
  urlSet,              \* config.beacon.url is a non-empty string
  beaconEnabled,       \* this.supportBeacon && config.beacon.useBeacon
  compression,         \* this.supportCompression && config.beacon.compression
  supportLocalStorage, \* this.supportLocalStorage
  online,              \* navigator.onLine
  storage,             \* localStorage item 'autotracker_offline_queue'
  queue,               \* this.queue
  sending,             \* this.sending
  timer,               \* this.timer and the timeout behind it
  retryCount,          \* this.retryCount
  offlineQueue,        \* this.offlineQueue
  isInitialized,       \* this.isInitialized
  listening,           \* the listeners of init() are registered
  thrown,              \* a call of the sender threw to its caller
  attempts,            \* send() calls whose promise handlers have not run
  nextId,              \* next record the host produces
  op,                  \* name of the last step
  pushed,              \* what the last step gave to addToOfflineQueue, and
                       \* what the cap dropped from the offline queue then
  backoffs,            \* retry delays armed since the last success / hand-off
  coreQueue,           \* factory: queue (Cache, insertion order)
  batchTimer,          \* factory: batchTimer is pending
  coreSent,            \* factory: batches handed to a transport, in order
  coreFetches,         \* factory: batches whose fetch has not settled
  coreDropped,         \* factory: batches whose send failed, held nowhere
  mon,                 \* which error monitor the host constructed
  samplingRate,        \* config.sampling.error / config.error.sampleRate,
                       \* in thousandths
  sourceMapOn,         \* this.isSourceMapSupported
  errorCache,          \* this.errorCache: fingerprint -> count, 0 = no entry
  errorCount,          \* this.errorCount / errorCount of initErrorMonitor
  monInitialized,      \* this.isInitialized / the monitor was set up
  intervalOn,          \* the setInterval of init() is running
  reported,            \* fingerprint -> records handed to the report
                       \* callback so far
  lastReport,          \* the records the last step handed to the callback
  mapPending,          \* fingerprint -> source-map lookups still pending
  reportedErrors,      \* core monitor: Set of reported fingerprints
  draw,                \* the value Math.random() returned, in thousandths
  sampled,             \* what shouldSample returned
  now,                 \* Date.now() and the clock of setTimeout
  delay,               \* the delay given to throttle() / debounce()
  lastCall,            \* throttle: lastCall
  throttleLog,         \* throttle: the calls of the wrapper, in order
  debounceTimer,       \* debounce: timer (0 = null, else a timeout id)
  pending,             \* debounce: timeouts set and neither run nor cleared
  debounceLog,         \* debounce: calls of the wrapper and of fn, in order
  cache,               \* Cache: the keys of this.cache, in insertion order
  maxSize,             \* Cache: this.maxSize
  cacheOp,             \* Cache: the last call, its key, the key it evicted
  currentConfig,       \* packages/core config.js: currentConfig
  senders,             \* packages/core: the senders createBeaconSender made
  beaconSender,        \* packages/core init(): its sender (0 = no init yet)
  lastEnqueued,        \* packages/core: the record the last step enqueued
  sdkCalls,            \* packages/core: calls of the API so far
  sdkOp                \* packages/core: name of the last call

configVars == <<impl, urlSet, beaconEnabled, compression, supportLocalStorage>>
senderVars == <<online, storage, queue, sending, timer, retryCount,
                offlineQueue, isInitialized, listening, thrown, attempts,
                pushed, backoffs>>
coreVars   == <<coreQueue, batchTimer, coreSent, coreFetches, coreDropped>>
deliveryVars == <<configVars, senderVars, coreVars, nextId, op>>
monitorVars == <<mon, sourceMapOn, errorCache, errorCount, monInitialized,
                 intervalOn, reported, lastReport, mapPending,
                 reportedErrors>>
sampleVars == <<samplingRate, draw, sampled>>
utilVars   == <<now, delay, lastCall, throttleLog, debounceTimer, pending,
                debounceLog>>
cacheVars  == <<cache, maxSize, cacheOp>>
sdkVars    == <<currentConfig, senders, beaconSender, lastEnqueued, sdkCalls,
                sdkOp>>
vars       == <<deliveryVars, monitorVars, sampleVars, utilVars, cacheVars,
                sdkVars>>

(***************************************************************************)
(* Helpers.                                                                *)
(***************************************************************************)
Min(a, b) == IF a < b THEN a ELSE b

\* Array.prototype.slice(-n) for n > 0: the last n elements
SliceLast(s, n) ==
  IF Len(s) <= n THEN s ELSE SubSeq(s, Len(s) - n + 1, Len(s))

RemoveAt(s, i) == SubSeq(s, 1, i - 1) \o SubSeq(s, i + 1, Len(s))

Range(s) == {s[k] : k \in DOMAIN s}

(***************************************************************************)
(* Durable storage: the item is absent, holds text JSON.parse rejects, or  *)
(* holds the JSON text of an array of records.                             *)
(***************************************************************************)
Absent  == [kind |-> "absent",  val |-> <<>>]
Corrupt == [kind |-> "corrupt", val |-> <<>>]
Json(s) == [kind |-> "json",    val |-> s]

\* what an earlier page of the same application can have left behind:
\* nothing, unreadable text, or up to maxOfflineQueueSize older records
OldRecords == <<91>>
Persisted ==
  {Absent, Corrupt} \cup
  {Json(SubSeq(OldRecords, 1, n)) :
     n \in 1..Min(Len(OldRecords), maxOfflineQueueSize)}

(***************************************************************************)
(* BeaconSender: timer.                                                    *)
(***************************************************************************)
TimerNull == [st |-> "null", d |-> 0]

\* stopTimer(): a non-null handle (pending or already fired) is cleared
StopTimer(t) == IF t.st # "null" THEN TimerNull ELSE t

\* startTimer(delay): stopTimer(), then one setTimeout
StartTimer(d) == [st |-> "armed", d |-> d]

\* delay of the retry armed in flush()'s catch branch
Backoff(rc) == Min(beaconDelay * 2^rc, MaxBackoff)

(***************************************************************************)
(* BeaconSender: offline queue.                                            *)
(***************************************************************************)
CapOfflineUncapped(q) == q

\* addToOfflineQueue(data): the cap
CapOffline(q) ==
  IF Len(q) > maxOfflineQueueSize THEN SliceLast(q, maxOfflineQueueSize) ELSE q

\* addToOfflineQueue(data): the in-memory part
AddToOfflineQueue(oq, data) == CapOffline(oq \o data)

\* bookkeeping of one addToOfflineQueue(data) call that turned oq into oq2
NoPush == [data |-> <<>>, evicted |-> <<>>]
PushOf(oq, data, oq2) ==
  [data |-> data,
   evicted |-> SubSeq(oq \o data, 1, Len(oq \o data) - Len(oq2))]

\* saveOfflineQueue(): setItem may throw (quota), which is caught
SaveOfflineQueue(st, oq, ok) ==
  IF ~supportLocalStorage THEN st
  ELSE IF ok THEN Json(oq) ELSE st

RestoredQueueIgnored(st, oq) == oq

\* restoreOfflineQueue(): the in-memory part
RestoredQueue(st, oq) ==
  IF ~supportLocalStorage THEN oq
  ELSE IF st.kind = "json" THEN st.val
  ELSE IF st.kind = "corrupt" THEN <<>>
  ELSE oq

RestoredStorageKept(st) == st

RestoredStorageCleared(st) == IF supportLocalStorage THEN Absent ELSE st

\* restoreOfflineQueue(): the durable part
RestoredStorage(st) ==
  IF supportLocalStorage /\ st.kind = "corrupt" THEN Absent ELSE st

(***************************************************************************)
(* BeaconSender: send(data).  The stage of an attempt is where its promise *)
(* stands when the synchronous part of send() returns.                     *)
(***************************************************************************)
BeaconOutcomes == {"queued", "refused", "threw"}

\* navigator.sendBeacon returned b: done, or sendWithFetch() takes over and
\* stays pending until its fetch (after compressData, when enabled) settles
AfterBeacon(b) == IF b = "queued" THEN "resolved" ELSE "fetch"

\* send(): the checks and the transport choice, with navigator.onLine = onl
StartStage(onl, b) ==
  IF ~urlSet THEN "rejectedNoUrl"
  ELSE IF ~onl THEN "rejectedOffline"
  ELSE IF beaconEnabled
       THEN (IF compression THEN "compressBeacon" ELSE AfterBeacon(b))
       ELSE "fetch"

\* send() settled in its synchronous part: the handlers run as microtasks
Settled(a) == a.stage \in {"resolved", "rejectedNoUrl", "rejectedOffline"}
MicroPending == \E i \in DOMAIN attempts : Settled(attempts[i])

\* send(data) called with offline queue oq, stored item st and
\* navigator.onLine = onl
Send(origin, data, oq, st, onl, b, ok) ==
  LET off == urlSet /\ ~onl
      oq2 == IF off THEN AddToOfflineQueue(oq, data) ELSE oq
  IN /\ attempts' = Append(attempts,
                           [origin |-> origin, data |-> data,
                            stage |-> StartStage(onl, b)])
     /\ offlineQueue' = oq2
     /\ storage' = IF off THEN SaveOfflineQueue(st, oq2, ok) ELSE st
     /\ pushed' = IF off THEN PushOf(oq, data, oq2) ELSE NoPush

(***************************************************************************)
(* BeaconSender: flush() on a queue q.                                     *)
(***************************************************************************)
NothingToFlushButSending(q) == sending

NothingToFlushButEmpty(q) == q = <<>>

\* flush(): the two early returns
NothingToFlush(q) == q = <<>> \/ sending

Flush(q, b, ok) ==
  IF NothingToFlush(q)
  THEN /\ queue' = q
       /\ pushed' = NoPush
       /\ UNCHANGED <<sending, timer, attempts, offlineQueue, storage>>
  ELSE /\ sending' = TRUE
       /\ timer' = StopTimer(timer)
       /\ queue' = <<>>
       /\ Send("flush", q, offlineQueue, storage, online, b, ok)

FlushThenKeepsCount ==
  /\ retryCount' = retryCount
  /\ timer' = StartTimer(beaconDelay)
  /\ sending' = FALSE
  /\ backoffs' = <<>>
  /\ pushed' = NoPush
  /\ UNCHANGED <<queue, offlineQueue, storage>>

\* flush(): .then handler
FlushThen ==
  /\ retryCount' = 0
  /\ timer' = StartTimer(beaconDelay)
  /\ sending' = FALSE
  /\ backoffs' = <<>>
  /\ pushed' = NoPush
  /\ UNCHANGED <<queue, offlineQueue, storage>>

RetryAllowedInclusive(rc) == rc <= maxRetries

\* flush(): .catch handler, the test of the incremented retryCount
RetryAllowed(rc) == rc < maxRetries

RequeueBehind(data, q) == q \o data

\* flush(): .catch handler, this.queue = [...data, ...this.queue]
Requeue(data, q) == data \o q

FlushCatchKeepsSending(data, ok) ==
  LET rc == retryCount + 1 IN
  /\ IF RetryAllowed(rc)
     THEN /\ retryCount' = rc
          /\ queue' = Requeue(data, queue)
          /\ timer' = StartTimer(Backoff(rc))
          /\ backoffs' = Append(backoffs, Backoff(rc))
          /\ pushed' = NoPush
          /\ UNCHANGED <<offlineQueue, storage>>
     ELSE /\ offlineQueue' = AddToOfflineQueue(offlineQueue, data)
          /\ storage' = SaveOfflineQueue(storage, offlineQueue', ok)
          /\ retryCount' = 0
          /\ timer' = StartTimer(beaconDelay)
          /\ backoffs' = <<>>
          /\ pushed' = PushOf(offlineQueue, data, offlineQueue')
          /\ UNCHANGED queue
  /\ sending' = sending

\* flush(): .catch handler
FlushCatch(data, ok) ==
  LET rc == retryCount + 1 IN
  /\ IF RetryAllowed(rc)
     THEN /\ retryCount' = rc
          /\ queue' = Requeue(data, queue)
          /\ timer' = StartTimer(Backoff(rc))
          /\ backoffs' = Append(backoffs, Backoff(rc))
          /\ pushed' = NoPush
          /\ UNCHANGED <<offlineQueue, storage>>
     ELSE /\ offlineQueue' = AddToOfflineQueue(offlineQueue, data)
          /\ storage' = SaveOfflineQueue(storage, offlineQueue', ok)
          /\ retryCount' = 0
          /\ timer' = StartTimer(beaconDelay)
          /\ backoffs' = <<>>
          /\ pushed' = PushOf(offlineQueue, data, offlineQueue')
          /\ UNCHANGED queue
  /\ sending' = FALSE

\* sendOfflineQueue(): .catch handler
DrainCatch(data, ok) ==
  /\ offlineQueue' = AddToOfflineQueue(offlineQueue, data)
  /\ storage' = SaveOfflineQueue(storage, offlineQueue', ok)
  /\ pushed' = PushOf(offlineQueue, data, offlineQueue')
  /\ UNCHANGED <<queue, sending, timer, retryCount, backoffs>>

\* the promise of attempt i is resolved and its handlers run
Resolve(i) ==
  /\ attempts' = RemoveAt(attempts, i)
  /\ IF attempts[i].origin = "flush"
     THEN FlushThen
     ELSE /\ pushed' = NoPush
          /\ UNCHANGED <<queue, sending, timer, retryCount, offlineQueue,
                         storage, backoffs>>

\* the promise of attempt i is rejected and its handlers run
Reject(i, ok) ==
  /\ attempts' = RemoveAt(attempts, i)
  /\ IF attempts[i].origin = "flush"
     THEN FlushCatch(attempts[i].data, ok)
     ELSE DrainCatch(attempts[i].data, ok)

\* outcomes of localStorage.setItem: it is reached only when supported
SaveOutcomes == IF supportLocalStorage THEN BOOLEAN ELSE {TRUE}

\* outcomes of navigator.sendBeacon where send() calls it synchronously
SyncBeaconOutcomes ==
  IF beaconEnabled /\ ~compression THEN BeaconOutcomes ELSE {"queued"}

\* pending send() calls started by sendOfflineQueue()
Drains == {i \in DOMAIN attempts : attempts[i].origin = "drain"}

SetStage(i, s) == attempts' = [attempts EXCEPT ![i].stage = s]

(***************************************************************************)
(* Configurations.  Compression changes the course of send() only on the   *)
(* sendBeacon path (it delays the sendBeacon call), and without a URL      *)
(* send() returns before it looks at the transport settings.               *)
(***************************************************************************)
Configs ==
  {[url |-> TRUE,  beacon |-> TRUE,  compression |-> TRUE],
   [url |-> TRUE,  beacon |-> TRUE,  compression |-> FALSE],
   [url |-> TRUE,  beacon |-> FALSE, compression |-> TRUE],
   [url |-> FALSE, beacon |-> TRUE,  compression |-> TRUE]}

(***************************************************************************)
(* Initial state: the sender has been constructed, init() has not run.     *)
(***************************************************************************)
SenderInit ==
  /\ impl \in {"class", "factory"}
  /\ \E c \in Configs :
       /\ urlSet = c.url
       /\ beaconEnabled = c.beacon
       /\ compression = c.compression
  /\ supportLocalStorage \in BOOLEAN
  /\ online = TRUE
  /\ storage \in (IF impl = "class" /\ supportLocalStorage
                  THEN Persisted ELSE {Absent})
  /\ queue = <<>>
  /\ sending = FALSE
  /\ timer = TimerNull
  /\ retryCount = 0
  /\ offlineQueue = <<>>
  /\ isInitialized = FALSE
  /\ listening = FALSE
  /\ thrown = FALSE
  /\ attempts = <<>>
  /\ nextId = 1
  /\ op = "new"
  /\ pushed = NoPush
  /\ backoffs = <<>>
  /\ coreQueue = <<>>
  /\ batchTimer = FALSE
  /\ coreSent = <<>>
  /\ coreFetches = <<>>
  /\ coreDropped = <<>>

(***************************************************************************)
(* BeaconSender: operations.                                               *)
(***************************************************************************)
\* a macrotask (event listener, timer callback, transport completion) runs
\* only when no promise handler is waiting in the microtask queue
Macrotask == impl = "class" /\ ~MicroPending

\* a listener that init() registered runs
Task == Macrotask /\ listening

\* init(); the model follows one init() per sender
InitSender ==
  /\ impl = "class" /\ ~isInitialized /\ ~listening
  /\ isInitialized' = TRUE
  /\ listening' = TRUE
  /\ offlineQueue' = RestoredQueue(storage, offlineQueue)
  /\ storage' = RestoredStorage(storage)
  /\ timer' = StartTimer(beaconDelay)
  /\ op' = "init"
  /\ pushed' = NoPush
  /\ UNCHANGED <<monitorVars, sampleVars, utilVars, cacheVars, sdkVars>>
  /\ UNCHANGED <<configVars, coreVars, online, queue, sending, retryCount,
                 thrown, attempts, backoffs, nextId>>

ReachedBatchSizeStrict(n) == n > batchSize

\* add(): the threshold test
ReachedBatchSize(n) == n >= batchSize

\* add(data); the host adds records once it has initialised the sender
Add ==
  /\ impl = "class" /\ isInitialized
  /\ nextId <= MaxRecords
  /\ \E b \in SyncBeaconOutcomes, ok \in SaveOutcomes :
       LET q == Append(queue, nextId) IN
       IF ReachedBatchSize(Len(q))
       THEN Flush(q, b, ok)
       ELSE /\ queue' = q
            /\ pushed' = NoPush
            /\ UNCHANGED <<sending, timer, attempts, offlineQueue, storage>>
  /\ nextId' = nextId + 1
  /\ op' = "add"
  /\ UNCHANGED <<monitorVars, sampleVars, utilVars, cacheVars, sdkVars>>
  /\ UNCHANGED <<configVars, coreVars, online, retryCount, isInitialized,
                 listening, thrown,
                 backoffs>>

\* a listener or callback whose whole body is this.flush()
FlushSignal(name) ==
  /\ \E b \in SyncBeaconOutcomes, ok \in SaveOutcomes : Flush(queue, b, ok)
  /\ op' = name
  /\ UNCHANGED <<monitorVars, sampleVars, utilVars, cacheVars, sdkVars>>
  /\ UNCHANGED <<configVars, coreVars, online, retryCount, isInitialized,
                 listening, thrown,
                 backoffs, nextId>>

\* the setTimeout callback of startTimer
TimerFire ==
  /\ Macrotask /\ timer.st = "armed"
  /\ \E b \in SyncBeaconOutcomes, ok \in SaveOutcomes :
       IF queue = <<>> \/ sending
       THEN /\ timer' = [timer EXCEPT !.st = "fired"]
            /\ pushed' = NoPush
            /\ UNCHANGED <<queue, sending, attempts, offlineQueue, storage>>
       ELSE Flush(queue, b, ok)
  /\ op' = "timer"
  /\ UNCHANGED <<monitorVars, sampleVars, utilVars, cacheVars, sdkVars>>
  /\ UNCHANGED <<configVars, coreVars, online, retryCount, isInitialized,
                 listening, thrown,
                 backoffs, nextId>>

\* visibilitychange, document.visibilityState === 'hidden'
VisibilityHidden == Task /\ FlushSignal("hidden")

\* beforeunload
BeforeUnload == Task /\ FlushSignal("beforeunload")

SendOfflineQueueKeepsItem(b, ok) ==
  IF offlineQueue = <<>> \/ ~online'
  THEN /\ pushed' = NoPush
       /\ UNCHANGED <<attempts, offlineQueue, storage>>
  ELSE Send("drain", offlineQueue, <<>>, storage, online', b, ok)

\* sendOfflineQueue()
SendOfflineQueue(b, ok) ==
  IF offlineQueue = <<>> \/ ~online'
  THEN /\ pushed' = NoPush
       /\ UNCHANGED <<attempts, offlineQueue, storage>>
  ELSE Send("drain", offlineQueue, <<>>,
            IF supportLocalStorage THEN Absent ELSE storage, online', b, ok)

DrainSignal(name) ==
  /\ Cardinality(Drains) < MaxDrains
  /\ \E b \in SyncBeaconOutcomes, ok \in SaveOutcomes : SendOfflineQueue(b, ok)
  /\ op' = name
  /\ UNCHANGED <<monitorVars, sampleVars, utilVars, cacheVars, sdkVars>>
  /\ UNCHANGED <<configVars, coreVars, queue, sending, timer, retryCount,
                 isInitialized, listening, thrown, backoffs, nextId>>

\* visibilitychange, document.visibilityState === 'visible'
VisibilityVisible == Task /\ online' = online /\ DrainSignal("visible")

\* the device regains connectivity: 'online' event
Online == Task /\ ~online /\ online' = TRUE /\ DrainSignal("online")

\* the device loses connectivity: 'offline' event
Offline ==
  /\ Task /\ online
  /\ online' = FALSE
  /\ timer' = StopTimer(timer)
  /\ op' = "offline"
  /\ pushed' = NoPush
  /\ UNCHANGED <<monitorVars, sampleVars, utilVars, cacheVars, sdkVars>>
  /\ UNCHANGED <<configVars, coreVars, storage, queue, sending, retryCount,
                 offlineQueue, isInitialized, listening, thrown, attempts,
                 backoffs, nextId>>

\* microtask: handlers of a promise that send() settled synchronously
Settle ==
  /\ impl = "class"
  /\ \E i \in DOMAIN attempts :
       /\ Settled(attempts[i])
       /\ IF attempts[i].stage = "resolved"
          THEN Resolve(i) /\ op' = "settleOk"
          ELSE /\ \E ok \in SaveOutcomes : Reject(i, ok)
               /\ op' = IF attempts[i].stage = "rejectedOffline"
                        THEN "settleOffline" ELSE "settleNoUrl"
  /\ UNCHANGED <<monitorVars, sampleVars, utilVars, cacheVars, sdkVars>>
  /\ UNCHANGED <<configVars, coreVars, online, isInitialized, listening,
                 thrown, nextId>>

\* compressData resolved in send(); navigator.sendBeacon is called
CompressBeaconDone ==
  /\ Macrotask
  /\ \E i \in DOMAIN attempts, b \in BeaconOutcomes :
       /\ attempts[i].stage = "compressBeacon"
       /\ IF AfterBeacon(b) = "resolved"
          THEN Resolve(i)
          ELSE /\ SetStage(i, AfterBeacon(b))
               /\ pushed' = NoPush
               /\ UNCHANGED <<queue, sending, timer, retryCount, offlineQueue,
                              storage, backoffs>>
  /\ op' = "beacon"
  /\ UNCHANGED <<monitorVars, sampleVars, utilVars, cacheVars, sdkVars>>
  /\ UNCHANGED <<configVars, coreVars, online, isInitialized, listening,
                 thrown, nextId>>

\* fetch settled: response.ok, or a non-2xx status / network error / timeout
FetchDone ==
  /\ Macrotask
  /\ \E i \in DOMAIN attempts, ok \in SaveOutcomes, resp \in BOOLEAN :
       /\ attempts[i].stage = "fetch"
       /\ IF resp
          THEN Resolve(i) /\ op' = "fetchOk"
          ELSE Reject(i, ok) /\ op' = "fetchFail"
  /\ UNCHANGED <<monitorVars, sampleVars, utilVars, cacheVars, sdkVars>>
  /\ UNCHANGED <<configVars, coreVars, online, isInitialized, listening,
                 thrown, nextId>>

\* destroy(): stopTimer(), flush(); removeEventListener is given this.flush,
\* this.sendOfflineQueue and this.stopTimer, none of which init() registered
\* (it registered arrow functions), so the listeners stay
Destroy ==
  /\ Macrotask /\ isInitialized
  /\ \E b \in SyncBeaconOutcomes, ok \in SaveOutcomes :
       IF queue = <<>> \/ sending
       THEN /\ timer' = StopTimer(timer)
            /\ pushed' = NoPush
            /\ UNCHANGED <<queue, sending, attempts, offlineQueue, storage>>
       ELSE Flush(queue, b, ok)
  /\ isInitialized' = FALSE
  /\ op' = "destroy"
  /\ UNCHANGED <<monitorVars, sampleVars, utilVars, cacheVars, sdkVars>>
  /\ UNCHANGED <<configVars, coreVars, online, retryCount, listening, thrown,
                 backoffs, nextId>>

\* init() when reading the stored item fails and localStorage.removeItem in
\* the catch block of restoreOfflineQueue() throws as well (access to the
\* storage is denied): init() throws before startTimer() and before it
\* registers its listeners
InitRemoveThrows ==
  /\ impl = "class" /\ ~isInitialized /\ ~listening
  /\ supportLocalStorage /\ storage.kind = "corrupt"
  /\ isInitialized' = TRUE
  /\ offlineQueue' = <<>>
  /\ thrown' = TRUE
  /\ op' = "initThrew"
  /\ pushed' = NoPush
  /\ UNCHANGED <<monitorVars, sampleVars, utilVars, cacheVars, sdkVars>>
  /\ UNCHANGED <<configVars, coreVars, online, storage, queue, sending, timer,
                 retryCount, listening, attempts, backoffs, nextId>>

\* sendOfflineQueue() when localStorage.removeItem throws: the offline queue
\* is already cleared, send() is not reached and the listener throws
DrainRemoveThrows(name) ==
  /\ supportLocalStorage
  /\ offlineQueue # <<>> /\ online'
  /\ offlineQueue' = <<>>
  /\ thrown' = TRUE
  /\ op' = name
  /\ pushed' = NoPush
  /\ UNCHANGED <<monitorVars, sampleVars, utilVars, cacheVars, sdkVars>>
  /\ UNCHANGED <<configVars, coreVars, storage, queue, sending, timer,
                 retryCount, isInitialized, listening, attempts, backoffs,
                 nextId>>

\* visibilitychange to 'visible', removeItem throws
VisibleRemoveThrows ==
  Task /\ online' = online /\ DrainRemoveThrows("visibleThrew")

\* 'online' event, removeItem throws
OnlineRemoveThrows ==
  Task /\ ~online /\ online' = TRUE /\ DrainRemoveThrows("onlineThrew")

ClassNext ==
  \/ InitSender
  \/ Add
  \/ TimerFire
  \/ VisibilityHidden
  \/ BeforeUnload
  \/ VisibilityVisible
  \/ Online
  \/ Offline
  \/ Settle
  \/ CompressBeaconDone
  \/ FetchDone

(***************************************************************************)
(* Cache of packages/utils: a Map from keys to entries.  The model keeps   *)
(* the keys in the insertion order of the Map; setting a key the Map holds *)
(* leaves its place as it is.                                              *)
(***************************************************************************)
\* Map.prototype.set
MapSet(c, k) == IF k \in Range(c) THEN c ELSE Append(c, k)

\* Map.prototype.delete
MapDelete(c, k) == SelectSeq(c, LAMBDA x : x # k)

EvictStrict(c, m) == IF Len(c) > m /\ c # <<>> THEN Tail(c) ELSE c

\* Cache.set: a full cache loses the first key of the Map
Evict(c, m) == IF Len(c) >= m /\ c # <<>> THEN Tail(c) ELSE c

\* Cache.set(key, value) on a cache with maxSize m
SetIn(c, m, k) == MapSet(Evict(c, m), k)

(***************************************************************************)
(* createBeaconSender: operations.                                         *)
(***************************************************************************)
\* Cache.set(key, value) with a fresh key
CacheSet(q, r) == SetIn(q, CacheMaxSize, r)

\* sendBatch(): the transport the payload is handed to
CoreVia(b) ==
  IF beaconEnabled /\ b # "threw" THEN "beacon" ELSE "fetch"

\* sendBatch(): what navigator.sendBeacon did, "none" when it is not called
CoreBeacon(b) == IF beaconEnabled THEN b ELSE "none"

\* sendBatch() on queue q
SendBatch(q, b) ==
  IF q = <<>>
  THEN coreQueue' = q /\ UNCHANGED <<coreSent, coreFetches, coreDropped>>
  ELSE /\ coreQueue' = <<>>
       /\ coreSent' = Append(coreSent, [batch |-> q, via |-> CoreVia(b),
                                        beacon |-> CoreBeacon(b)])
       /\ coreFetches' = IF CoreVia(b) = "fetch"
                         THEN Append(coreFetches, q) ELSE coreFetches
       /\ coreDropped' = IF CoreVia(b) = "beacon" /\ b = "refused"
                         THEN Append(coreDropped, q) ELSE coreDropped

CoreReachedBatchSizeStrict(n) == n > coreBatchSize

\* send(): the threshold test
CoreReachedBatchSize(n) == n >= coreBatchSize

\* send(data)
CoreSend ==
  /\ impl = "factory"
  /\ nextId <= MaxRecords
  /\ nextId' = nextId + 1
  /\ op' = "coreSend"
  /\ IF ~urlSet
     THEN UNCHANGED coreVars
     ELSE LET q == CacheSet(coreQueue, nextId) IN
          IF CoreReachedBatchSize(Len(q))
          THEN /\ \E b \in BeaconOutcomes : SendBatch(q, b)
               /\ UNCHANGED batchTimer
          ELSE /\ coreQueue' = q
               /\ batchTimer' = TRUE
               /\ UNCHANGED <<coreSent, coreFetches, coreDropped>>
  /\ UNCHANGED <<monitorVars, sampleVars, utilVars, cacheVars, sdkVars>>
  /\ UNCHANGED <<configVars, senderVars>>

\* the setTimeout callback armed by send()
CoreTimerFire ==
  /\ impl = "factory" /\ batchTimer
  /\ \E b \in BeaconOutcomes : SendBatch(coreQueue, b)
  /\ batchTimer' = FALSE
  /\ op' = "coreTimer"
  /\ UNCHANGED <<monitorVars, sampleVars, utilVars, cacheVars, sdkVars>>
  /\ UNCHANGED <<configVars, senderVars, nextId>>

\* flush(), also the beforeunload listener
CoreFlush ==
  /\ impl = "factory"
  /\ \E b \in BeaconOutcomes : SendBatch(coreQueue, b)
  /\ batchTimer' = FALSE
  /\ op' = "coreFlush"
  /\ UNCHANGED <<monitorVars, sampleVars, utilVars, cacheVars, sdkVars>>
  /\ UNCHANGED <<configVars, senderVars, nextId>>

\* fallbackSend(): the fetch settled; .then and .catch only log
CoreFetchDone ==
  /\ impl = "factory"
  /\ \E i \in DOMAIN coreFetches, resp \in BOOLEAN :
       /\ coreFetches' = RemoveAt(coreFetches, i)
       /\ coreDropped' = IF resp THEN coreDropped
                         ELSE Append(coreDropped, coreFetches[i])
       /\ op' = IF resp THEN "coreFetchOk" ELSE "coreFetchFail"
  /\ UNCHANGED <<coreQueue, batchTimer, coreSent>>
  /\ UNCHANGED <<monitorVars, sampleVars, utilVars, cacheVars, sdkVars>>
  /\ UNCHANGED <<configVars, senderVars, nextId>>

CoreNext ==
  \/ CoreSend
  \/ CoreTimerFire
  \/ CoreFlush
  \/ CoreFetchDone

(***************************************************************************)
(* shouldSample(samplingRate).  Rates and random draws are counted in      *)
(* thousandths: SampleOne is the rate 1.0, and Math.random() returns a     *)
(* value r with 0 <= r < SampleOne.                                        *)
(***************************************************************************)
shouldSampleInclusive(rate, r) ==
  IF rate >= SampleOne THEN TRUE
  ELSE IF rate <= 0 THEN FALSE
  ELSE r <= rate

shouldSample(rate, r) ==
  IF rate >= SampleOne THEN TRUE
  ELSE IF rate <= 0 THEN FALSE
  ELSE r < rate

\* sampling rates a configuration can hold, 1.0 and out-of-range ones included
Rates == {0 - SampleOne, 0 - 1, 0, 1, 250, 500, 750, SampleOne - 1, SampleOne,
          SampleOne + 1, 2 * SampleOne}

\* values Math.random() can return
Draws == {0, 1, 249, 250, 251, 499, 500, 501, 750, SampleOne - 1}

NotSampled == <<>>

\* one call of shouldSample(samplingRate)
Sample ==
  /\ sampled = NotSampled
  /\ \E r \in Draws :
       /\ draw' = r
       /\ sampled' = <<shouldSample(samplingRate, r)>>
  /\ UNCHANGED <<deliveryVars, monitorVars, samplingRate, utilVars>>
  /\ UNCHANGED <<cacheVars, sdkVars>>

(***************************************************************************)
(* Error monitors.                                                         *)
(***************************************************************************)
Fingerprints == 1..MaxFingerprints

\* new Map(): no fingerprint has an entry
EmptyCache == [f \in Fingerprints |-> 0]

NoneOf == [f \in Fingerprints |-> 0]

RECURSIVE SumOver(_, _)
SumOver(n, S) ==
  IF S = {} THEN 0
  ELSE LET f == CHOOSE x \in S : TRUE IN n[f] + SumOver(n, S \ {f})

Total(n) == SumOver(n, Fingerprints)

\* the monitor as its constructor leaves it
MonitorConstructed ==
  /\ errorCache = EmptyCache
  /\ errorCount = 0
  /\ intervalOn = FALSE
  /\ reported = NoneOf
  /\ lastReport = <<>>
  /\ mapPending = NoneOf
  /\ reportedErrors = {}

\* the record reportError() hands to the report callback
ErrorRecord(f, c) == [fp |-> f, count |-> c]

\* reportError(record of fingerprint f with count c)
ReportError(f, c) ==
  /\ reported' = [reported EXCEPT ![f] = @ + 1]
  /\ lastReport' = <<ErrorRecord(f, c)>>

NoReport == reported' = reported /\ lastReport' = <<>>

\* room left in the report log of the model
CanReport == Total(reported) + Total(mapPending) < MaxReports

IncrementWrapping(c) == IF c >= 10 THEN 1 ELSE c + 1

\* ErrorMonitor.handleError: cachedError.count++
Increment(c) == c + 1

ReemitDueAfterTen(c) == c >= 10

\* ErrorMonitor.handleError: a repeat is reported again on every 10th
ReemitDue(c) == c % 10 = 0

\* values of Math.random() that decide shouldSample differently
MonitorDraws == IF 0 < samplingRate /\ samplingRate < SampleOne
                THEN {0, SampleOne - 1} ELSE {0}

\* formattedError.stack is set or empty; it matters with source maps only
StackOutcomes == IF sourceMapOn THEN BOOLEAN ELSE {FALSE}

\* ErrorMonitor.handleError(errorOrEvent) for an error with fingerprint f;
\* ignored: shouldIgnoreError matched; hasStack: formattedError.stack is set
HandleError ==
  /\ mon = "class"
  /\ \E f \in Fingerprints, r \in MonitorDraws,
        ignored \in BOOLEAN, hasStack \in StackOutcomes :
       IF ~shouldSample(samplingRate, r) \/ ignored
       THEN /\ NoReport
            /\ UNCHANGED <<errorCache, errorCount, mapPending>>
       ELSE IF errorCache[f] > 0
       THEN LET c == Increment(errorCache[f]) IN
            /\ Total(errorCache) < MaxCount
            /\ ReemitDue(c) => CanReport
            /\ errorCache' = [errorCache EXCEPT ![f] = c]
            /\ IF ReemitDue(c) THEN ReportError(f, c) ELSE NoReport
            /\ UNCHANGED <<errorCount, mapPending>>
       ELSE /\ CanReport
            /\ errorCache' = [errorCache EXCEPT ![f] = 1]
            /\ errorCount' = errorCount + 1
            /\ IF sourceMapOn /\ hasStack
               THEN /\ mapPending' = [mapPending EXCEPT ![f] = @ + 1]
                    /\ NoReport
               ELSE /\ ReportError(f, 1)
                    /\ UNCHANGED mapPending
  /\ UNCHANGED <<mon, sourceMapOn, monInitialized, intervalOn,
                 reportedErrors>>
  /\ UNCHANGED <<deliveryVars, sampleVars, utilVars, cacheVars, sdkVars>>

\* parseStackWithSourceMap: Promise.all settled, the record is reported
SourceMapDone ==
  /\ mon = "class"
  /\ \E f \in Fingerprints :
       /\ mapPending[f] > 0
       /\ mapPending' = [mapPending EXCEPT ![f] = @ - 1]
       /\ ReportError(f, 1)
  /\ UNCHANGED <<mon, sourceMapOn, errorCache, errorCount, monInitialized,
                 intervalOn, reportedErrors>>
  /\ UNCHANGED <<deliveryVars, sampleVars, utilVars, cacheVars, sdkVars>>

\* ErrorMonitor.init()
MonitorInit ==
  /\ mon = "class" /\ ~monInitialized /\ ~intervalOn
  /\ monInitialized' = TRUE
  /\ intervalOn' = TRUE
  /\ NoReport
  /\ UNCHANGED <<mon, sourceMapOn, errorCache, errorCount, mapPending,
                 reportedErrors>>
  /\ UNCHANGED <<deliveryVars, sampleVars, utilVars, cacheVars, sdkVars>>

\* the setInterval callback of init(): every 60 seconds
ResetErrorCount ==
  /\ mon = "class" /\ intervalOn
  /\ errorCount' = 0
  /\ NoReport
  /\ UNCHANGED <<mon, sourceMapOn, errorCache, monInitialized, intervalOn,
                 mapPending, reportedErrors>>
  /\ UNCHANGED <<deliveryVars, sampleVars, utilVars, cacheVars, sdkVars>>

\* ErrorMonitor.destroy()
MonitorDestroy ==
  /\ mon = "class" /\ monInitialized
  /\ errorCache' = EmptyCache
  /\ monInitialized' = FALSE
  /\ NoReport
  /\ UNCHANGED <<mon, sourceMapOn, errorCount, intervalOn, mapPending,
                 reportedErrors>>
  /\ UNCHANGED <<deliveryVars, sampleVars, utilVars, cacheVars, sdkVars>>

\* initErrorMonitor.handleError: the per-page ceiling
PageLimitReached(n) == n >= maxErrorsPerPage

\* initErrorMonitor.handleError(error, source)
CoreHandleError ==
  /\ mon = "core" /\ monInitialized
  /\ \E f \in Fingerprints, ignored \in BOOLEAN :
       IF PageLimitReached(errorCount) \/ ignored \/ f \in reportedErrors
       THEN /\ NoReport
            /\ UNCHANGED <<reportedErrors, errorCount>>
       ELSE /\ reportedErrors' = reportedErrors \cup {f}
            /\ errorCount' = errorCount + 1
            /\ ReportError(f, 1)
  /\ UNCHANGED <<mon, sourceMapOn, errorCache, monInitialized, intervalOn,
                 mapPending>>
  /\ UNCHANGED <<deliveryVars, sampleVars, utilVars, cacheVars, sdkVars>>

MonitorNext ==
  \/ MonitorInit
  \/ HandleError
  \/ SourceMapDone
  \/ ResetErrorCount
  \/ MonitorDestroy
  \/ CoreHandleError

(***************************************************************************)
(* throttle(fn, delay) and debounce(fn, delay).  Time is counted in whole  *)
(* units; now is what Date.now() returns and the clock setTimeout follows. *)
(***************************************************************************)
\* the argument list and the this-value of one call of a wrapper
Args == {1, 2}

Delays == 1..MaxDelay

\* throttle() / debounce() have returned their wrappers, nothing was called
UtilConstructed ==
  /\ lastCall = 0
  /\ throttleLog = <<>>
  /\ debounceTimer = 0
  /\ pending = {}
  /\ debounceLog = <<>>

\* time passes; a timeout that is due runs before the clock moves on
Tick ==
  /\ now < MaxNow
  /\ \A t \in pending : now < t.due
  /\ now' = now + 1
  /\ UNCHANGED <<delay, lastCall, throttleLog, debounceTimer, pending,
                 debounceLog>>
  /\ UNCHANGED <<deliveryVars, monitorVars, sampleVars, cacheVars, sdkVars>>

\* throttle: the test now - lastCall >= delay
Elapsed(n, last, d) == n - last >= d

\* a call of the function throttle() returned
ThrottledCall ==
  /\ Len(throttleLog) < MaxCalls
  /\ LET run == Elapsed(now, lastCall, delay) IN
       /\ lastCall' = IF run THEN now ELSE lastCall
       /\ throttleLog' = Append(throttleLog, [at |-> now, ran |-> run])
  /\ UNCHANGED <<now, delay, debounceTimer, pending, debounceLog>>
  /\ UNCHANGED <<deliveryVars, monitorVars, sampleVars, cacheVars, sdkVars>>

ThrottleNext ==
  \/ Tick
  \/ ThrottledCall

ClearTimeoutKeeps(P, id) == P

\* clearTimeout(id)
ClearTimeout(P, id) == {t \in P : t.id # id}

\* calls of the debounced wrapper so far
WrapperCalls ==
  Cardinality({i \in DOMAIN debounceLog : debounceLog[i].kind = "call"})

\* a call of the function debounce() returned
DebouncedCall ==
  /\ WrapperCalls < MaxCalls
  /\ \E a \in Args :
       LET id == WrapperCalls + 1
           P == IF debounceTimer # 0
                THEN ClearTimeout(pending, debounceTimer) ELSE pending
       IN /\ debounceTimer' = id
          /\ pending' = P \cup {[id |-> id, due |-> now + delay, arg |-> a]}
          /\ debounceLog' =
               Append(debounceLog, [kind |-> "call", at |-> now, arg |-> a])
  /\ UNCHANGED <<now, delay, lastCall, throttleLog>>
  /\ UNCHANGED <<deliveryVars, monitorVars, sampleVars, cacheVars, sdkVars>>

\* the setTimeout callback of debounce: fn.apply(this, args)
TimeoutRun ==
  /\ \E t \in pending :
       /\ t.due <= now
       /\ pending' = pending \ {t}
       /\ debounceLog' =
            Append(debounceLog, [kind |-> "fn", at |-> now, arg |-> t.arg])
  /\ UNCHANGED <<now, delay, lastCall, throttleLog, debounceTimer>>
  /\ UNCHANGED <<deliveryVars, monitorVars, sampleVars, cacheVars, sdkVars>>

DebounceNext ==
  \/ Tick
  \/ DebouncedCall
  \/ TimeoutRun

(***************************************************************************)
(* Cache of packages/utils: calls.                                         *)
(***************************************************************************)
Keys == 1..MaxKeys

\* new Cache(maxSize)
CacheConstructed ==
  /\ cache = <<>>
  /\ cacheOp = [name |-> "new", key |-> 0, evicted |-> 0]

\* set(key, value)
SetKey ==
  /\ \E k \in Keys :
       /\ cache' = SetIn(cache, maxSize, k)
       /\ cacheOp' = [name |-> "set", key |-> k,
                      evicted |-> IF Evict(cache, maxSize) # cache
                                  THEN Head(cache) ELSE 0]
  /\ UNCHANGED maxSize
  /\ UNCHANGED <<deliveryVars, monitorVars, sampleVars, utilVars, sdkVars>>

\* get(key): an entry whose time has passed is deleted
GetKey ==
  /\ \E k \in Keys, expired \in BOOLEAN :
       /\ cache' = IF expired THEN MapDelete(cache, k) ELSE cache
       /\ cacheOp' = [name |-> "get", key |-> k, evicted |-> 0]
  /\ UNCHANGED maxSize
  /\ UNCHANGED <<deliveryVars, monitorVars, sampleVars, utilVars, sdkVars>>

\* delete(key)
DeleteKey ==
  /\ \E k \in Keys :
       /\ cache' = MapDelete(cache, k)
       /\ cacheOp' = [name |-> "delete", key |-> k, evicted |-> 0]
  /\ UNCHANGED maxSize
  /\ UNCHANGED <<deliveryVars, monitorVars, sampleVars, utilVars, sdkVars>>

\* clear()
ClearCache ==
  /\ cache' = <<>>
  /\ cacheOp' = [name |-> "clear", key |-> 0, evicted |-> 0]
  /\ UNCHANGED maxSize
  /\ UNCHANGED <<deliveryVars, monitorVars, sampleVars, utilVars, sdkVars>>

CacheNext ==
  \/ SetKey
  \/ GetKey
  \/ DeleteKey
  \/ ClearCache

(***************************************************************************)
(* packages/core: config.js and index.js.  A configuration is the object   *)
(* currentConfig refers to; deepMerge builds a new object and a sender     *)
(* keeps the object createBeaconSender was given, so the model gives each  *)
(* sender the value its configuration object had then.  A user id is a     *)
(* number (0 stands for the empty string), user properties are the set of  *)
(* their names.                                                            *)
(***************************************************************************)
Users == 1..MaxUsers
PropNames == 1..MaxProps

\* config.js: defaultConfig (beacon.url, userId, userProperties)
defaultConfig == [url |-> FALSE, userId |-> 0, userProperties |-> {}]

\* deepMerge(target, source): a new object; a key of source replaces the
\* value of target, and two objects under one key are merged in turn
deepMerge(target, source) ==
  [k \in DOMAIN target |->
     IF k \notin DOMAIN source THEN target[k]
     ELSE IF k = "userProperties" THEN target[k] \cup source[k]
     ELSE source[k]]

\* the userConfig objects the host gives to init()
UserConfigs ==
  {[url |-> TRUE], [url |-> TRUE, userId |-> 1], [userId |-> 1]}

\* createBeaconSender(config)
createBeaconSender(config) ==
  [config |-> config, queue |-> <<>>, batchTimer |-> FALSE]

\* enrichData(data) of sender s for the record of call n
enrichData(s, type, n) ==
  [id |-> n, type |-> type, userId |-> s.config.userId,
   userProperties |-> s.config.userProperties]

\* send(data) of sender s: the sender afterwards
SenderSend(s, type, n) ==
  IF ~s.config.url THEN s
  ELSE LET q == CacheSet(s.queue, enrichData(s, type, n)) IN
       IF CoreReachedBatchSize(Len(q))
       THEN [s EXCEPT !.queue = <<>>]
       ELSE [s EXCEPT !.queue = q, !.batchTimer = TRUE]

\* what send(data) of sender number i enqueued
Enqueued(i, s, type, n) ==
  IF s.config.url
  THEN <<[sender |-> i, record |-> enrichData(s, type, n)]>> ELSE <<>>

\* the module as loaded: no init() yet
SdkLoaded ==
  /\ currentConfig = defaultConfig
  /\ senders = <<>>
  /\ beaconSender = 0
  /\ lastEnqueued = <<>>
  /\ sdkCalls = 0
  /\ sdkOp = "load"

\* init(userConfig); the model follows one init()
SdkInit ==
  /\ beaconSender = 0
  /\ \E userConfig \in UserConfigs :
       /\ currentConfig' = deepMerge(defaultConfig, userConfig)
       /\ senders' = Append(senders, createBeaconSender(currentConfig'))
  /\ beaconSender' = Len(senders')
  /\ lastEnqueued' = <<>>
  /\ sdkOp' = "init"
  /\ UNCHANGED sdkCalls
  /\ UNCHANGED <<deliveryVars, monitorVars, sampleVars, utilVars, cacheVars>>

\* a tracker that init() set up reports a record: beaconSender.send(data)
AutoTrack ==
  /\ beaconSender # 0
  /\ sdkCalls < MaxSdkCalls
  /\ sdkCalls' = sdkCalls + 1
  /\ LET s == senders[beaconSender] IN
       /\ senders' = [senders EXCEPT
                        ![beaconSender] = SenderSend(s, "auto", sdkCalls')]
       /\ lastEnqueued' = Enqueued(beaconSender, s, "auto", sdkCalls')
  /\ sdkOp' = "auto"
  /\ UNCHANGED <<currentConfig, beaconSender>>
  /\ UNCHANGED <<deliveryVars, monitorVars, sampleVars, utilVars, cacheVars>>

\* trackEvent(eventName, eventData)
TrackEvent ==
  /\ sdkCalls < MaxSdkCalls
  /\ sdkCalls' = sdkCalls + 1
  /\ LET s == createBeaconSender(currentConfig) IN
       /\ senders' = Append(senders, SenderSend(s, "custom", sdkCalls'))
       /\ lastEnqueued' = Enqueued(Len(senders'), s, "custom", sdkCalls')
  /\ sdkOp' = "trackEvent"
  /\ UNCHANGED <<currentConfig, beaconSender>>
  /\ UNCHANGED <<deliveryVars, monitorVars, sampleVars, utilVars, cacheVars>>

\* config.update(newConfig)
ConfigUpdate(newConfig) == currentConfig' = deepMerge(currentConfig, newConfig)

\* setUserId(userId)
SetUserId ==
  /\ sdkCalls < MaxSdkCalls
  /\ sdkCalls' = sdkCalls + 1
  /\ \E u \in Users : ConfigUpdate([userId |-> u])
  /\ lastEnqueued' = <<>>
  /\ sdkOp' = "setUserId"
  /\ UNCHANGED <<senders, beaconSender>>
  /\ UNCHANGED <<deliveryVars, monitorVars, sampleVars, utilVars, cacheVars>>

\* setUserProperties(properties)
SetUserProperties ==
  /\ sdkCalls < MaxSdkCalls
  /\ sdkCalls' = sdkCalls + 1
  /\ \E n \in PropNames : ConfigUpdate([userProperties |-> {n}])
  /\ lastEnqueued' = <<>>
  /\ sdkOp' = "setUserProperties"
  /\ UNCHANGED <<senders, beaconSender>>
  /\ UNCHANGED <<deliveryVars, monitorVars, sampleVars, utilVars, cacheVars>>

\* the batch timer of a sender fires: sendBatch(), batchTimer = null
SdkTimerFire ==
  /\ \E i \in DOMAIN senders :
       /\ senders[i].batchTimer
       /\ senders' = [senders EXCEPT ![i].queue = <<>>,
                                     ![i].batchTimer = FALSE]
  /\ lastEnqueued' = <<>>
  /\ sdkOp' = "timer"
  /\ UNCHANGED <<currentConfig, beaconSender, sdkCalls>>
  /\ UNCHANGED <<deliveryVars, monitorVars, sampleVars, utilVars, cacheVars>>

SdkNext ==
  \/ SdkInit
  \/ AutoTrack
  \/ TrackEvent
  \/ SetUserId
  \/ SetUserProperties
  \/ SdkTimerFire

(***************************************************************************)
(* Specifications.                                                         *)
(***************************************************************************)
\* the sender as constructed under the default configuration
SenderIdle ==
  /\ SenderInit
  /\ impl = "class" /\ urlSet /\ beaconEnabled /\ compression
  /\ supportLocalStorage /\ storage = Absent

\* the class monitor as constructed under the default configuration
MonitorIdle ==
  /\ mon = "class"
  /\ sourceMapOn = TRUE
  /\ monInitialized = FALSE
  /\ MonitorConstructed

\* config.sampling.error = 1.0, shouldSample not called yet
SampleIdle ==
  /\ samplingRate = SampleOne
  /\ draw = 0
  /\ sampled = NotSampled

\* no wrapper of throttle() / debounce() is followed
UtilIdle ==
  /\ now = 0
  /\ delay = 1
  /\ UtilConstructed

\* no Cache of its own is followed: new Cache() with the default maxSize
CacheIdle ==
  /\ maxSize = 100
  /\ CacheConstructed

\* packages/core is loaded and not used
SdkIdle == SdkLoaded

Init ==
  SenderInit /\ MonitorIdle /\ SampleIdle /\ UtilIdle /\ CacheIdle /\ SdkIdle

Next == ClassNext \/ CoreNext

\* the page while localStorage.removeItem works and destroy() is not called
Spec == Init /\ [][Next]_vars

\* the same with destroy() and with removeItem calls that throw
LifecycleNext ==
  \/ Next
  \/ Destroy
  \/ InitRemoveThrows
  \/ VisibleRemoveThrows
  \/ OnlineRemoveThrows

LifecycleSpec == Init /\ [][LifecycleNext]_vars

\* this step called addToOfflineQueue() and localStorage.setItem worked
SavesSucceed ==
  (supportLocalStorage /\ pushed'.data # <<>>) =>
    storage' = Json(offlineQueue')

\* the page of Spec while no localStorage operation throws
DurableNext == Next /\ SavesSucceed

DurableSpec == Init /\ [][DurableNext]_vars

\* this step moved the pending send() of flush() on: its compression or
\* its fetch settled, or its handlers ran
FlushProgress ==
  \E i \in DOMAIN attempts :
    /\ attempts[i].origin = "flush"
    /\ \/ attempts' = RemoveAt(attempts, i)
       \/ attempts' = [attempts EXCEPT ![i].stage = "fetch"]

\* the BeaconSender class alone
LiveInit == Init /\ impl = "class"

\* the class on an event loop that runs the promise handlers and in which
\* every compression and every fetch settles
LiveSpec ==
  /\ LiveInit
  /\ [][ClassNext]_vars
  /\ WF_vars(Settle)
  /\ SF_vars(CompressBeaconDone /\ FlushProgress)
  /\ SF_vars(FetchDone /\ FlushProgress)

\* configurations of the monitors: the sampling rate decides before the
\* source-map setting is looked at
MonitorConfigs ==
  {[mon |-> "class", rate |-> SampleOne, sourceMap |-> TRUE],
   [mon |-> "class", rate |-> SampleOne, sourceMap |-> FALSE],
   [mon |-> "class", rate |-> 500,       sourceMap |-> FALSE],
   [mon |-> "class", rate |-> 0,         sourceMap |-> TRUE],
   [mon |-> "core",  rate |-> SampleOne, sourceMap |-> FALSE],
   [mon |-> "core",  rate |-> 500,       sourceMap |-> FALSE],
   [mon |-> "core",  rate |-> 0,         sourceMap |-> FALSE]}

MonitorSpecInit ==
  /\ SenderIdle
  /\ \E c \in MonitorConfigs :
       /\ mon = c.mon
       /\ samplingRate = c.rate
       /\ sourceMapOn = c.sourceMap
  /\ MonitorConstructed
  \* initErrorMonitor() samples once, while it sets the monitor up
  /\ monInitialized \in
       (IF mon = "class" THEN {FALSE}
        ELSE {shouldSample(samplingRate, r) : r \in MonitorDraws})
  /\ draw = 0
  /\ sampled = NotSampled
  /\ UtilIdle /\ CacheIdle /\ SdkIdle

MonitorSpec == MonitorSpecInit /\ [][MonitorNext]_vars

SampleSpecInit ==
  /\ SenderIdle
  /\ MonitorIdle
  /\ samplingRate \in Rates
  /\ draw = 0
  /\ sampled = NotSampled
  /\ UtilIdle /\ CacheIdle /\ SdkIdle

SampleSpec == SampleSpecInit /\ [][Sample]_vars

\* one throttled function; Date.now() is whatever the clock of the device
\* says when throttle() is called
ThrottleSpecInit ==
  /\ SenderIdle /\ MonitorIdle /\ SampleIdle /\ CacheIdle /\ SdkIdle
  /\ now \in 0..MaxStart
  /\ delay \in Delays
  /\ UtilConstructed

ThrottleSpec == ThrottleSpecInit /\ [][ThrottleNext]_vars

\* one debounced function
DebounceSpecInit ==
  /\ SenderIdle /\ MonitorIdle /\ SampleIdle /\ CacheIdle /\ SdkIdle
  /\ now = 0
  /\ delay \in Delays
  /\ UtilConstructed

DebounceSpec == DebounceSpecInit /\ [][DebounceNext]_vars

\* one Cache, constructed with a maxSize of at least 1
CacheSpecInit ==
  /\ SenderIdle /\ MonitorIdle /\ SampleIdle /\ UtilIdle /\ SdkIdle
  /\ maxSize \in 1..MaxCacheSize
  /\ CacheConstructed

CacheSpec == CacheSpecInit /\ [][CacheNext]_vars

\* a page that uses the API of packages/core
SdkSpecInit ==
  /\ SenderIdle /\ MonitorIdle /\ SampleIdle /\ UtilIdle /\ CacheIdle
  /\ SdkLoaded

SdkSpec == SdkSpecInit /\ [][SdkNext]_vars

(***************************************************************************)
(* Vocabulary of the properties.                                           *)
(***************************************************************************)
AllRecords == (1..MaxRecords) \cup Range(OldRecords)

Count(s, r) == Cardinality({k \in DOMAIN s : s[k] = r})

\* the attempt waits for compression or for the network
InTransport(a) == a.stage \in {"compressBeacon", "fetch"}

\* positions <<i, k>> of the records carried by attempts that are in transport
InFlightPositions ==
  UNION {{<<i, k>> : k \in DOMAIN attempts[i].data} :
           i \in {j \in DOMAIN attempts : InTransport(attempts[j])}}

\* occurrences of record r in the queue, in flight and in the offline queue
Occurrences(r) ==
  Count(queue, r) + Count(offlineQueue, r)
  + Cardinality({p \in InFlightPositions : attempts[p[1]].data[p[2]] = r})

\* this step ran the catch handler of flush()
FlushFailed ==
  sending /\ ~sending' /\ op' \in {"fetchFail", "settleOffline", "settleNoUrl"}

\* this step handed a failed batch to the offline queue, retries exhausted
HandedOff == FlushFailed /\ pushed'.data # <<>>

\* this step started flush()'s send while the device is offline
OfflineFlush == urlSet /\ ~online /\ ~sending /\ sending'

(***************************************************************************)
(* C1: the sender never has two transport sends outstanding at the same    *)
(* time, whether started by flush() or by sendOfflineQueue().              *)
(***************************************************************************)
C1_SingleFlight ==
  Cardinality({i \in DOMAIN attempts : attempts[i].stage = "fetch"}) <= 1

(***************************************************************************)
(* C2: a batch whose transport fails is handed to the offline queue only   *)
(* after exactly maxRetries retries whose delays were beaconDelay * 2^1,   *)
(* beaconDelay * 2^2, ..., each capped at 60000 ms.                        *)
(***************************************************************************)
C2_RetriedMaxRetriesTimes ==
  [][(HandedOff /\ op' = "fetchFail") =>
       backoffs = [k \in 1..maxRetries |-> Min(beaconDelay * 2^k, 60000)]]_vars

(***************************************************************************)
(* C3: every record occurs at most once across the in-memory queue, the    *)
(* batches in flight and the offline queue.                                *)
(***************************************************************************)
C3_NoDuplicateRecord == \A r \in AllRecords : Occurrences(r) <= 1

(***************************************************************************)
(* C4: a flush that runs while the device is offline puts its batch in the *)
(* offline queue without a transport call, and retryCount is the same      *)
(* after that flush has settled as before.                                 *)
(***************************************************************************)
C4_OfflineFlushKeepsRetryCount ==
  /\ [][OfflineFlush =>
          /\ attempts'[Len(attempts')].stage = "rejectedOffline"
          /\ pushed'.data = attempts'[Len(attempts')].data]_vars
  /\ [][op' = "settleOffline" => retryCount' = retryCount]_vars

LastAttempt(as) == as[Len(as)]

\* attempts as2 are attempts as followed by one new send(data) from origin o
OneMoreAttempt(as, as2, o, data) ==
  /\ Len(as2) = Len(as) + 1
  /\ SubSeq(as2, 1, Len(as)) = as
  /\ LastAttempt(as2).origin = o
  /\ LastAttempt(as2).data = data

(***************************************************************************)
(* C6 as stated: in every sender state, an add() that brings the queue to  *)
(* batchSize or more leaves the queue empty when it returns.               *)
(***************************************************************************)
C6_AddAlwaysEmptiesQueue ==
  [][(op' = "add" /\ Len(queue) + 1 >= batchSize) => queue' = <<>>]_vars

(***************************************************************************)
(* C6 as amended: when no delivery attempt is in flight (sending is        *)
(* false), an add() that brings the queue to batchSize or more flushes     *)
(* synchronously: one attempt starts with the whole queue and the queue is *)
(* empty when add() returns.                                               *)
(***************************************************************************)
C6_AddEmptiesQueueWhenIdle ==
  [][(op' = "add" /\ ~sending /\ Len(queue) + 1 >= batchSize) =>
       /\ queue' = <<>>
       /\ sending'
       /\ OneMoreAttempt(attempts, attempts', "flush",
                         Append(queue, nextId))]_vars

\* an add() has just flushed a queue that had reached batchSize
C6_Witness ==
  /\ op = "add" /\ queue = <<>> /\ sending
  /\ attempts # <<>>
  /\ LastAttempt(attempts).origin = "flush"
  /\ Len(LastAttempt(attempts).data) >= batchSize
  /\ LastAttempt(attempts).data[Len(LastAttempt(attempts).data)] = nextId - 1

C8_TimerArmedWhileQueued ==
  (isInitialized /\ queue # <<>> /\ ~sending) => timer.st = "armed"

C10_RestoreIntoQueue ==
  [][(op' = "init" /\ supportLocalStorage /\ storage.kind = "json") =>
       /\ \A r \in Range(storage.val) : Count(queue', r) = 1
       /\ attempts' = attempts]_vars

(***************************************************************************)
(* C10 as amended: init() puts every persisted record, in stored order, in *)
(* the offline queue and not in the in-memory queue, and starts no         *)
(* delivery attempt; a restored record never enters the in-memory queue or *)
(* a batch of flush(), it is sent only by the offline-queue drain.         *)
(***************************************************************************)
C10_RestoreIntoOfflineQueue ==
  /\ [][op' = "init" =>
          /\ queue' = queue
          /\ attempts' = attempts /\ sending' = sending
          /\ (supportLocalStorage /\ storage.kind = "json") =>
               (offlineQueue' = storage.val /\ storage' = storage)]_vars
  /\ [](\A r \in Range(OldRecords) :
          /\ Count(queue, r) = 0
          /\ \A i \in DOMAIN attempts :
               attempts[i].origin = "flush" => Count(attempts[i].data, r) = 0)

\* init() has just restored persisted records
C10_Witness ==
  /\ op = "init"
  /\ offlineQueue # <<>> /\ storage = Json(offlineQueue)
  /\ queue = <<>> /\ attempts = <<>>

(***************************************************************************)
(* C11: a beforeunload signal that finds records in the queue hands all of *)
(* them, in order, to a delivery attempt before the listener returns, in   *)
(* every sender state; where sendBeacon is the transport in use it has     *)
(* been called by then.                                                    *)
(***************************************************************************)
C11_TeardownHandsOffQueue ==
  [][(op' = "beforeunload" /\ queue # <<>>) =>
       /\ queue' = <<>>
       /\ Len(attempts') = Len(attempts) + 1
       /\ attempts'[Len(attempts')].data = queue
       /\ (urlSet /\ online /\ beaconEnabled) =>
            attempts'[Len(attempts')].stage # "compressBeacon"]_vars

(***************************************************************************)
(* Vocabulary of the monitor properties.                                   *)
(***************************************************************************)
\* fingerprints that have a dedup entry
Cached == {f \in Fingerprints : errorCache[f] > 0}

\* destroy() has cleared the dedup cache of this monitor
CacheCleared == intervalOn /\ ~monInitialized

\* this step is destroy()
DestroyStep == monInitialized /\ ~monInitialized'

(***************************************************************************)
(* C12: with error sampling rate 1 the ErrorMonitor emits the first        *)
(* occurrence of a fingerprint with count 1 (directly, or when its         *)
(* source-map lookup settles), suppresses every repeat whose running count *)
(* is not a multiple of 10 and emits the others with that count; so after  *)
(* n occurrences of a fingerprint 1 + floor(n/10) records were emitted for *)
(* it (n = 20: three records, with counts 1, 10 and 20).                   *)
(***************************************************************************)
C12_EmitFirstAndEveryTenth ==
  /\ [][(mon = "class" /\ samplingRate = SampleOne) =>
        \A f \in Fingerprints :
          LET n == errorCache'[f] IN
          (n # errorCache[f] /\ n > 0) =>
            /\ n = errorCache[f] + 1
            /\ IF n = 1
               THEN \/ /\ reported'[f] = reported[f] + 1
                       /\ lastReport' = <<ErrorRecord(f, 1)>>
                       /\ mapPending' = mapPending
                    \/ /\ mapPending'[f] = mapPending[f] + 1
                       /\ reported' = reported /\ lastReport' = <<>>
               ELSE IF n % 10 = 0
               THEN /\ reported'[f] = reported[f] + 1
                    /\ lastReport' = <<ErrorRecord(f, n)>>
                    /\ mapPending' = mapPending
               ELSE /\ reported' = reported /\ lastReport' = <<>>
                    /\ mapPending' = mapPending]_vars
  /\ []((mon = "class" /\ samplingRate = SampleOne /\ ~CacheCleared) =>
         \A f \in Fingerprints :
           reported[f] + mapPending[f] =
             IF errorCache[f] = 0 THEN 0 ELSE 1 + (errorCache[f] \div 10))

\* the 20th occurrence of a fingerprint has emitted its third record
C12_Witness ==
  /\ mon = "class" /\ samplingRate = SampleOne /\ ~CacheCleared
  /\ \E f \in Fingerprints :
       /\ errorCache[f] = 20
       /\ reported[f] = 3
       /\ lastReport = <<ErrorRecord(f, 20)>>

(***************************************************************************)
(* C13: an error monitor never hands more than maxErrorsPerPage error      *)
(* records to its report callback or sender on one page.                   *)
(***************************************************************************)
C13_EmittedAtMostMaxPerPage == Total(reported) <= maxErrorsPerPage

(***************************************************************************)
(* C14: the dedup cache of the ErrorMonitor is bounded: it never holds an  *)
(* entry for every one of the distinct fingerprints the page produces, a   *)
(* further unseen fingerprint replaces an entry of the full cache.         *)
(***************************************************************************)
C14_DedupCacheBounded == Cardinality(Cached) < MaxFingerprints

C16_ShouldSample ==
  /\ [](sampled # NotSampled =>
         sampled[1] = (IF samplingRate <= 0 THEN FALSE
                       ELSE IF samplingRate >= SampleOne THEN TRUE
                       ELSE draw < samplingRate))
  /\ [][sampled' # sampled =>
          UNCHANGED <<deliveryVars, monitorVars, samplingRate>>]_vars

\* the random draw equals the rate and the record is rejected
C16_Witness ==
  /\ 0 < samplingRate /\ samplingRate < SampleOne
  /\ draw = samplingRate
  /\ sampled = <<FALSE>>

(***************************************************************************)
(* C17: no call of the BeaconSender (init, add, flush, the offline-queue   *)
(* drain, a lifecycle listener) throws to its caller or leaves a rejected  *)
(* promise unhandled, whatever the transport and the storage do.           *)
(***************************************************************************)
C17_NeverThrows == ~thrown

(***************************************************************************)
(* C18: without an endpoint URL the records given to the sender are        *)
(* dropped: no transport is called, and the records are neither kept in    *)
(* the in-memory queue, nor retried, nor put in the offline queue (class   *)
(* and factory).                                                           *)
(***************************************************************************)
C18_NoUrlDropsRecords ==
  /\ [](~urlSet =>
         /\ \A i \in DOMAIN attempts : ~InTransport(attempts[i])
         /\ coreQueue = <<>> /\ coreSent = <<>>
         /\ Range(offlineQueue) \subseteq Range(OldRecords))
  /\ [][(~urlSet /\ op' = "settleNoUrl") =>
          (queue' = queue /\ retryCount' = retryCount)]_vars

Destroyed == impl = "class" /\ listening /\ ~isInitialized

(***************************************************************************)
(* C20: once destroy() has been called and the attempts in flight have     *)
(* settled, no flush timer is armed, and no timer expiry or lifecycle      *)
(* signal after destroy() starts a delivery attempt.                       *)
(***************************************************************************)
C20_DestroyStopsReporting ==
  /\ []((Destroyed /\ attempts = <<>>) => timer.st # "armed")
  /\ [][(Destroyed /\ op' \in {"timer", "hidden", "beforeunload", "visible",
                                "online"}) =>
          Len(attempts') <= Len(attempts)]_vars

(***************************************************************************)
(* Vocabulary of the factory's delivery properties.                        *)
(***************************************************************************)
\* the number of times batch q was handed to a transport
TimesSent(q) == Cardinality({i \in DOMAIN coreSent : coreSent[i].batch = q})

(***************************************************************************)
(* C21: createBeaconSender gives a batch up only after its send has failed *)
(* 1 + retryCount times: a batch whose send failed and which the sender    *)
(* no longer holds was handed to a transport once and again retryCount     *)
(* times.                                                                  *)
(***************************************************************************)
C21_CoreRetriesFailedBatch ==
  \A i \in DOMAIN coreDropped :
    TimesSent(coreDropped[i]) = 1 + coreRetryCount

(***************************************************************************)
(* Vocabulary of the throttle and debounce properties.                     *)
(***************************************************************************)
\* the calls before call i that executed fn
RanBefore(i) == {k \in 1..(i - 1) : throttleLog[k].ran}

\* the last of a non-empty set of positions
Last(S) == CHOOSE k \in S : \A j \in S : j <= k

(***************************************************************************)
(* C22: a call of a throttled function executes fn exactly when it is the  *)
(* first call or at least delay has passed since the last call that        *)
(* executed fn; any other call is dropped.                                 *)
(***************************************************************************)
C22_ThrottleRunsWhenDelayElapsed ==
  \A i \in DOMAIN throttleLog :
    throttleLog[i].ran <=>
      \/ RanBefore(i) = {}
      \/ throttleLog[i].at - throttleLog[Last(RanBefore(i))].at >= delay

\* the calls of the debounced wrapper before position j of its log
CallsBefore(j) == {k \in 1..(j - 1) : debounceLog[k].kind = "call"}

\* the executions of fn that follow the call at position k of the log with
\* no other call in between
RunsAfter(k) ==
  {j \in DOMAIN debounceLog :
     /\ j > k /\ debounceLog[j].kind = "fn"
     /\ \A c \in CallsBefore(j) : c <= k}

(***************************************************************************)
(* C23: a debounced function executes fn only delay after the latest call  *)
(* of the wrapper, with the arguments and this-value of that call, and     *)
(* once per burst: never while calls keep arriving less than delay apart.  *)
(* A call that has not been answered yet has its timeout pending, due      *)
(* delay after it.                                                         *)
(***************************************************************************)
C23_DebounceRunsOnceAfterLastCall ==
  /\ \A j \in DOMAIN debounceLog :
       debounceLog[j].kind = "fn" =>
         /\ CallsBefore(j) # {}
         /\ LET k == Last(CallsBefore(j)) IN
              /\ debounceLog[j].at = debounceLog[k].at + delay
              /\ debounceLog[j].arg = debounceLog[k].arg
              /\ RunsAfter(k) = {j}
  /\ \A k \in DOMAIN debounceLog :
       (debounceLog[k].kind = "call" /\ k = Last(CallsBefore(
                                                Len(debounceLog) + 1))
        /\ RunsAfter(k) = {}) =>
         /\ now <= debounceLog[k].at + delay
         /\ \E t \in pending : /\ t.due = debounceLog[k].at + delay
                                /\ t.arg = debounceLog[k].arg

\* two calls less than delay apart, then fn ran for the second of them
C23_Witness ==
  \E j \in DOMAIN debounceLog :
    /\ j >= 3
    /\ debounceLog[j].kind = "fn"
    /\ debounceLog[j - 1].kind = "call" /\ debounceLog[j - 2].kind = "call"
    /\ debounceLog[j - 1].at - debounceLog[j - 2].at < delay
    /\ debounceLog[j - 1].at > debounceLog[j - 2].at
    /\ debounceLog[j - 1].arg # debounceLog[j - 2].arg

(***************************************************************************)
(* Vocabulary of the retry and hand-off properties.                        *)
(***************************************************************************)
\* the batch of the attempt flush() started and whose handlers have not run
FlushBatch ==
  attempts[CHOOSE i \in DOMAIN attempts : attempts[i].origin = "flush"].data

\* this step ran flush()'s catch handler with retries left
RetryStep == FlushFailed /\ retryCount + 1 < maxRetries

\* this step ran flush()'s catch handler with the retries used up
GiveUpStep == FlushFailed /\ retryCount + 1 >= maxRetries

(***************************************************************************)
(* C24: when an attempt of flush() fails with retries left, the queue      *)
(* becomes the records of the failed batch, in their order, followed by    *)
(* the records added while the attempt was in flight, in the order they    *)
(* were added: while an attempt is in flight the queue holds only records  *)
(* newer than the batch, oldest first.                                     *)
(***************************************************************************)
C24_RetriedRecordsGoFirst ==
  /\ [](sending =>
         /\ \A r \in Range(queue), x \in Range(FlushBatch) : r > x
         /\ \A j, k \in DOMAIN queue : j < k => queue[j] < queue[k])
  /\ [][RetryStep => queue' = FlushBatch \o queue]_vars

\* a failed batch was put back in front of a record added meanwhile
C24_Witness ==
  /\ op = "fetchFail" /\ ~sending /\ retryCount > 0
  /\ queue = <<1, 2>>

\* the retry timer armed by flush()'s catch handler is still pending
BackoffPending ==
  /\ ~sending /\ retryCount > 0
  /\ timer = StartTimer(Backoff(retryCount))

(***************************************************************************)
(* C25: after an attempt of flush() failed with retries left, no delivery  *)
(* attempt starts before the back-off delay has passed: while the retry    *)
(* timer is pending, only its expiry starts an attempt.                    *)
(***************************************************************************)
C25_NoAttemptBeforeBackoff ==
  [][(BackoffPending /\ Len(attempts') > Len(attempts)) => op' = "timer"]_vars

(***************************************************************************)
(* Vocabulary of the record-conservation properties.                       *)
(***************************************************************************)
\* record r is in the queue, in the batch of a pending send() or in the
\* offline queue
Held(r) ==
  \/ r \in Range(queue)
  \/ r \in Range(offlineQueue)
  \/ \E i \in DOMAIN attempts : r \in Range(attempts[i].data)

\* this step ran the handlers of a send() whose transport took the payload
AcceptedStep == op' \in {"settleOk", "beacon", "fetchOk"}

(***************************************************************************)
(* C26: no step loses a record given to add(): a record that leaves the    *)
(* queue, the pending batches and the offline queue was accepted by a      *)
(* transport in that step or was dropped by the cap of the offline queue.  *)
(***************************************************************************)
C26_NoRecordLost ==
  [][\A r \in 1..MaxRecords :
       (Held(r) /\ ~Held(r)') =>
          \/ AcceptedStep /\ Len(attempts') < Len(attempts)
          \/ r \in Range(pushed'.evicted)]_vars

(***************************************************************************)
(* C27: a record of the offline queue stays in the durable storage until   *)
(* an attempt that carries it has succeeded or the cap has dropped it: in  *)
(* particular, while a drain attempt is in flight the stored item still    *)
(* holds the records of its batch.                                         *)
(***************************************************************************)
C27_DrainedRecordsStayStored ==
  \A i \in Drains :
    (supportLocalStorage /\ InTransport(attempts[i])) =>
       /\ storage.kind = "json"
       /\ Range(attempts[i].data) \subseteq Range(storage.val)

(***************************************************************************)
(* C28: flush() called with an empty queue, or while sending is true,      *)
(* changes nothing: queue, sending, retryCount, the offline queue, the     *)
(* stored item and the timer stay as they are and no send() is started.    *)
(* (When the timer callback is the caller, the timer has expired.)         *)
(***************************************************************************)
C28_FlushNoOp ==
  /\ [][(op' \in {"hidden", "beforeunload"} /\ (queue = <<>> \/ sending)) =>
          UNCHANGED <<queue, sending, retryCount, offlineQueue, storage,
                      timer, attempts>>]_vars
  /\ [][(op' = "timer" /\ (queue = <<>> \/ sending)) =>
          /\ UNCHANGED <<queue, sending, retryCount, offlineQueue, storage,
                         attempts>>
          /\ timer'.d = timer.d /\ timer'.st # "null"]_vars
  /\ [][(op' = "add" /\ sending) =>
          /\ UNCHANGED <<sending, retryCount, offlineQueue, storage, timer,
                         attempts>>
          /\ queue' = Append(queue, nextId)]_vars

\* the hidden listener has called flush() during an attempt, records queued
C28_Witness ==
  /\ op = "hidden"
  /\ sending /\ queue # <<>>
  /\ Len(attempts) = 1

(***************************************************************************)
(* C29: when an attempt of flush() fails and the incremented retryCount    *)
(* reaches maxRetries, the records of the failed batch are appended in     *)
(* order to the offline queue, which is then capped; the queue does not    *)
(* get them back, retryCount is 0, sending is false and the timer is armed *)
(* with the normal delay.  With retries left nothing is pushed.            *)
(***************************************************************************)
C29_GiveUpHandsBatchToOfflineQueue ==
  /\ [][GiveUpStep =>
          /\ pushed'.data = FlushBatch
          /\ offlineQueue' =
               SliceLast(offlineQueue \o FlushBatch, maxOfflineQueueSize)
          /\ queue' = queue
          /\ retryCount' = 0
          /\ ~sending'
          /\ timer' = [st |-> "armed", d |-> beaconDelay]]_vars
  /\ [][RetryStep => (pushed'.data = <<>> /\ offlineQueue' = offlineQueue)]_vars

\* a batch of two records was given up after the last retry failed
C29_Witness ==
  /\ op = "fetchFail"
  /\ pushed.data = <<1, 2>>
  /\ retryCount = 0 /\ ~sending
  /\ queue = <<>>

(***************************************************************************)
(* C30: a record added while an attempt of flush() is in flight goes to    *)
(* the queue and leaves the pending batches as they are; no record of the  *)
(* queue is in the batch in flight; and the next attempt flush() starts    *)
(* carries the whole queue, so the record travels in a later batch.        *)
(***************************************************************************)
C30_AddDuringFlightQueuesRecord ==
  /\ [][(op' = "add" /\ sending) =>
          (queue' = Append(queue, nextId) /\ attempts' = attempts)]_vars
  /\ [](sending => Range(queue) \cap Range(FlushBatch) = {})
  /\ [][(~sending /\ sending' /\ op' # "add") =>
          (LastAttempt(attempts').data = queue /\ queue' = <<>>)]_vars

\* a record added during an attempt is now carried by the next batch
C30_Witness ==
  /\ sending /\ op \in {"timer", "hidden", "beforeunload"}
  /\ 2 \in Range(FlushBatch)
  /\ nextId > 2
  /\ retryCount = 0

(***************************************************************************)
(* Vocabulary of the transport properties.                                 *)
(***************************************************************************)
\* this step called send() and the call got as far as choosing a transport
NewTransportAttempt ==
  /\ Len(attempts') = Len(attempts) + 1
  /\ LastAttempt(attempts').stage \notin {"rejectedNoUrl", "rejectedOffline"}

(***************************************************************************)
(* C31: in BeaconSender and in createBeaconSender every delivery attempt   *)
(* invokes fetch exactly when sendBeacon is unsupported or disabled, has   *)
(* thrown or has returned false; a payload that sendBeacon accepted is not *)
(* given to fetch.                                                         *)
(***************************************************************************)
C31_FetchExactlyWhenBeaconFails ==
  /\ [][(NewTransportAttempt /\ ~beaconEnabled) =>
          LastAttempt(attempts').stage = "fetch"]_vars
  /\ [][(NewTransportAttempt /\ LastAttempt(attempts').stage = "resolved")
          => beaconEnabled]_vars
  /\ [](\A i \in DOMAIN coreSent :
          coreSent[i].via = "fetch" <=> coreSent[i].beacon # "queued")

\* this step handed a batch of createBeaconSender to a transport
CoreBatchSent == Len(coreSent') > Len(coreSent)

(***************************************************************************)
(* C32: in createBeaconSender no batch timer is pending after a batch was  *)
(* sent, by send() reaching batchSize or by flush(); a timer is armed only *)
(* by the first record enqueued after that, so that it runs for a whole    *)
(* batchTimeout from that record.                                          *)
(***************************************************************************)
C32_NoTimerAfterBatch ==
  /\ [][CoreBatchSent => ~batchTimer']_vars
  /\ [][(~batchTimer /\ batchTimer') =>
          (op' = "coreSend" /\ coreQueue = <<>> /\ Len(coreQueue') = 1)]_vars
  /\ [](batchTimer => coreQueue # <<>>)

\* this step of handleError decided to emit a record: the fingerprint was
\* new, or its count reached a multiple of ten
EmitDecision ==
  \E f \in Fingerprints :
    /\ errorCache'[f] = errorCache[f] + 1
    /\ errorCache[f] = 0 \/ ReemitDue(errorCache'[f])

(***************************************************************************)
(* C33: the rolling error counter of the ErrorMonitor counts the emit      *)
(* decisions made since the last reset of the 60-second interval: every    *)
(* decision to emit, for a first occurrence or for an every-10th repeat,   *)
(* adds one to it, and nothing else changes it but the reset to zero.      *)
(***************************************************************************)
C33_CounterCountsEmitDecisions ==
  /\ [][(mon = "class" /\ EmitDecision) =>
          errorCount' = errorCount + 1]_vars
  /\ [][(mon = "class" /\ ~EmitDecision) =>
          errorCount' \in {errorCount, 0}]_vars

(***************************************************************************)
(* C37: for every fingerprint the record with count 1 reaches the report   *)
(* callback before any record with count 10 or a higher multiple, also     *)
(* when source-map resolution delays the first record: when a repeat is    *)
(* reported no first record of its fingerprint is still being resolved.    *)
(***************************************************************************)
C37_FirstEmissionBeforeRepeat ==
  \A i \in DOMAIN lastReport :
    lastReport[i].count >= 10 => mapPending[lastReport[i].fp] = 0

(***************************************************************************)
(* Vocabulary of the retry-budget properties.                              *)
(***************************************************************************)
\* this step ran the then handler of flush(): the attempt succeeded
FlushSucceeded == sending /\ ~sending' /\ AcceptedStep

\* this step started a send() of sendOfflineQueue() or ran its handlers
DrainStep ==
  \/ /\ Len(attempts') = Len(attempts) + 1
     /\ LastAttempt(attempts').origin = "drain"
  \/ \E i \in Drains : attempts' = RemoveAt(attempts, i)

(***************************************************************************)
(* C40: with maxRetries >= 1, retryCount is at least 0 and below           *)
(* maxRetries whenever no attempt of flush() is in flight; it is 0 after   *)
(* every attempt of flush() that succeeded and after every failed batch    *)
(* that flush() handed to the offline queue; sendOfflineQueue() and its    *)
(* handlers never change it.                                               *)
(***************************************************************************)
C40_RetryCountWithinBudget ==
  /\ [](~sending => (0 <= retryCount /\ retryCount < maxRetries))
  /\ [][FlushSucceeded => retryCount' = 0]_vars
  /\ [][GiveUpStep => retryCount' = 0]_vars
  /\ [][DrainStep => retryCount' = retryCount]_vars

\* a drained batch is on its way while a failed batch of flush() waits for
\* its retry: the drain has left the spent retry as it was
C40_Witness ==
  /\ ~sending /\ retryCount = maxRetries - 1
  /\ \E i \in Drains : InTransport(attempts[i])

\* what is stored under the offline-queue key decodes to the sequence oq;
\* no stored item stands for the empty sequence
Decodes(st, oq) ==
  IF st = Absent THEN oq = <<>> ELSE st.kind = "json" /\ st.val = oq

C36_SendingEnds == sending ~> (~sending /\ timer.st = "armed")

\* a failed attempt of flush() has ended: sending is false again and the
\* retry timer runs
C36_Witness ==
  /\ op = "fetchFail" /\ ~sending /\ retryCount > 0
  /\ timer = StartTimer(Backoff(retryCount))
  /\ attempts = <<>>

(***************************************************************************)
(* C34: a Cache constructed with maxSize >= 1 never holds more than        *)
(* maxSize entries, whatever set, get, delete and clear calls are made,    *)
(* and a set on a full cache evicts the entry that was inserted earliest:  *)
(* that key leaves (unless it is the key being set, which then comes back  *)
(* as the newest), the other keys stay in their order and the key set is   *)
(* held afterwards.  The queue of createBeaconSender is such a Cache with  *)
(* maxSize 1000.                                                           *)
(***************************************************************************)
C34_CacheBounded ==
  /\ [](Len(cache) <= maxSize)
  /\ [][(cacheOp'.name = "set" /\ Len(cache) = maxSize) =>
          /\ cacheOp'.evicted = Head(cache)
          /\ Head(cache) \in Range(cache') => cacheOp'.key = Head(cache)
          /\ SubSeq(cache', 1, Len(cache) - 1) = Tail(cache)
          /\ cacheOp'.key \in Range(cache')]_vars
  /\ [][(cacheOp'.name = "set" /\ Len(cache) < maxSize) =>
          /\ cacheOp'.evicted = 0
          /\ Range(cache') = Range(cache) \cup {cacheOp'.key}]_vars

\* a set on a full cache of more than one entry has evicted the first key
C34_Witness ==
  /\ cacheOp.name = "set" /\ cacheOp.evicted # 0
  /\ maxSize > 1 /\ Len(cache) = maxSize
  /\ cacheOp.evicted \notin Range(cache)

(***************************************************************************)
(* Vocabulary of the packages/core properties.                             *)
(***************************************************************************)
\* this step enqueued a record on the sender that init() created
EnqueuedByInitSender ==
  /\ beaconSender # 0
  /\ lastEnqueued' # <<>>
  /\ lastEnqueued'[1].sender = beaconSender

(***************************************************************************)
(* C38: once setUserId(u) or setUserProperties(p) has returned, every      *)
(* record enqueued through the sender that init() created carries the user *)
(* id and the user properties of the configuration then in force.          *)
(***************************************************************************)
C38_RecordsCarryCurrentUser ==
  [][EnqueuedByInitSender =>
       /\ lastEnqueued'[1].record.userId = currentConfig.userId
       /\ lastEnqueued'[1].record.userProperties =
            currentConfig.userProperties]_vars

(***************************************************************************)
(* C39: after init(), trackEvent() enqueues its record on the sender that  *)
(* init() created: no trackEvent call creates a sender, so that the page   *)
(* has one queue and one batch timer however many custom events it         *)
(* reports.                                                                *)
(***************************************************************************)
C39_TrackEventUsesInitSender ==
  [][(sdkOp' = "trackEvent" /\ beaconSender # 0) =>
       /\ Len(senders') = Len(senders)
       /\ \A i \in DOMAIN lastEnqueued' :
            lastEnqueued'[i].sender = beaconSender]_vars
====
